---- MODULE Spec2Model ----
(***************************************************************************)
(* A model of markline's document-editing pipeline: the loc() locator      *)
(* factory and the Markup class with its original/draft element trees.     *)
(*                                                                         *)
(* Element trees are modelled as a node store `tree` (tag, attrs, own      *)
(* text, ordered children, per node id).  Python's None is the id 0.       *)
(* Text is a sequence of one-character strings so that strip() and         *)
(* str(int) are computed, not assumed.                                     *)
(***************************************************************************)
EXTENDS Integers, Sequences, FiniteSets, TLC

VARIABLES tree, original, draft, meta_arrays, meta, properties, fields, nextId, held, last, prev, ops

vars == <<tree, original, draft, meta_arrays, meta, properties, fields, nextId, held, last, prev, ops>>

\* Python's None, as an element reference and as a locator limit.
None == 0

\* ---- bounds ----
MaxNode == 21
MaxOps == 2

Node == 1..MaxNode

\* ---- generic helpers ----
Range(s) == {s[i] : i \in 1..Len(s)}

IndexOf(s, x) == CHOOSE i \in 1..Len(s) : s[i] = x

RemoveFrom(s, x) == SelectSeq(s, LAMBDA y : y # x)

InsertAt(s, pos, x) == SubSeq(s, 1, pos - 1) \o <<x>> \o SubSeq(s, pos, Len(s))

Take(s, k) == SubSeq(s, 1, IF k < Len(s) THEN k ELSE Len(s))

Min(a, b) == IF a < b THEN a ELSE b

\* a dict is a set of <<key, value>> pairs with unique keys
DictHas(d, k) == \E p \in d : p[1] = k

DictGet(d, k) == (CHOOSE p \in d : p[1] = k)[2]

\* ---- insertion-ordered dicts and Counter ----
\* an insertion-ordered dict is a sequence of <<key, value>> pairs
OKeys(d) == [i \in 1..Len(d) |-> d[i][1]]

OHas(d, k) == \E i \in 1..Len(d) : d[i][1] = k

OGet(d, k) == d[CHOOSE i \in 1..Len(d) : d[i][1] = k][2]

\* d[k] = v: an existing key keeps its place
OSet(d, k, v) ==
    IF OHas(d, k) THEN [i \in 1..Len(d) |-> IF d[i][1] = k THEN <<k, v>> ELSE d[i]]
    ELSE Append(d, <<k, v>>)

RECURSIVE CounterOf(_, _)
\* Counter(keys), filled in the order of keys
CounterOf(keys, c) ==
    IF keys = <<>> THEN c
    ELSE CounterOf(Tail(keys),
                   OSet(c, Head(keys), IF OHas(c, Head(keys)) THEN OGet(c, Head(keys)) + 1
                                       ELSE 1))

RECURSIVE InsertByCount(_, _)
\* one step of a stable sort by descending count
InsertByCount(sorted, e) ==
    IF sorted = <<>> THEN <<e>>
    ELSE IF Head(sorted)[2] >= e[2] THEN <<Head(sorted)>> \o InsertByCount(Tail(sorted), e)
    ELSE <<e>> \o sorted

RECURSIVE SortByCount(_, _)
SortByCount(c, sorted) ==
    IF c = <<>> THEN sorted ELSE SortByCount(Tail(c), InsertByCount(sorted, Head(c)))

\* dict(counter.most_common()): highest count first, ties in insertion
\* order
most_common(c) == SortByCount(c, <<>>)

\* ---- text ----
Digits == <<"0", "1", "2", "3", "4", "5", "6", "7", "8", "9">>

RECURSIVE IntToStr(_)
\* str(k) for a non-negative int
IntToStr(k) ==
    IF k < 10 THEN <<Digits[k + 1]>>
    ELSE IntToStr(k \div 10) \o <<Digits[(k % 10) + 1]>>

RECURSIVE LStrip(_)
LStrip(s) == IF s # <<>> /\ Head(s) = " " THEN LStrip(Tail(s)) ELSE s

RECURSIVE RStrip(_)
RStrip(s) ==
    IF s # <<>> /\ s[Len(s)] = " " THEN RStrip(SubSeq(s, 1, Len(s) - 1)) ELSE s

\* str.strip()
Strip(s) == RStrip(LStrip(s))

\* ---- the element tree (bs4) ----
DocumentTag == "[document]"

IsSoup(t, n) == t.tag[n] = DocumentTag

Parent(t, n) ==
    IF \E p \in Node : n \in Range(t.kids[p])
    THEN CHOOSE p \in Node : n \in Range(t.kids[p])
    ELSE None

RECURSIVE Walk(_, _)
\* the elements below a list of siblings, in document order
Walk(t, s) ==
    IF s = <<>> THEN <<>>
    ELSE <<Head(s)>> \o Walk(t, t.kids[Head(s)]) \o Walk(t, Tail(s))

\* Tag.descendants (tags only), document order
Descendants(t, n) == Walk(t, t.kids[n])

\* Tag.children (tags only)
Children(t, n) == t.kids[n]

RECURSIVE Ancestors(_, _)
\* Tag.parents
Ancestors(t, n) ==
    IF Parent(t, n) = None THEN {}
    ELSE {Parent(t, n)} \cup Ancestors(t, Parent(t, n))

RECURSIVE ConcatText(_, _)
ConcatText(t, s) ==
    IF s = <<>> THEN <<>> ELSE t.text[Head(s)] \o ConcatText(t, Tail(s))

\* Tag.text: every string below the element, concatenated
TextOf(t, n) == t.text[n] \o ConcatText(t, Descendants(t, n))

RECURSIVE StringOf(_, _)
\* Tag.string as [has, s]: the single string child, through single-child
\* tags; absent when the element has no or several children.
StringOf(t, n) ==
    IF t.text[n] # <<>> /\ t.kids[n] = <<>> THEN [has |-> TRUE, s |-> t.text[n]]
    ELSE IF t.text[n] = <<>> /\ Len(t.kids[n]) = 1 THEN StringOf(t, t.kids[n][1])
    ELSE [has |-> FALSE, s |-> <<>>]

\* PageElement.extract: unlink the element from its parent
Extract(t, n) ==
    LET p == Parent(t, n) IN
    IF p = None THEN t
    ELSE [t EXCEPT !.kids[p] = RemoveFrom(@, n)]

RECURSIVE Insert(_, _, _, _)
\* Tag.insert(position, new_child), positions counted from 1; a
\* BeautifulSoup object is not nested: its children are inserted instead.
\* Returns [t, err].
Insert(t, p, pos, c) ==
    IF c = None THEN [t |-> t, err |-> "ValueError"]
    ELSE IF c = p THEN [t |-> t, err |-> "ValueError"]
    ELSE IF IsSoup(t, c) THEN
        IF t.kids[c] = <<>> THEN [t |-> t, err |-> ""]
        ELSE LET one == Insert(t, p, pos, t.kids[c][1]) IN
             IF one.err # "" THEN one ELSE Insert(one.t, p, pos + 1, c)
    ELSE LET at0 == Min(pos, Len(t.kids[p]) + 1)
             at == IF Parent(t, c) = p /\ IndexOf(t.kids[p], c) < at0
                   THEN at0 - 1 ELSE at0
             u == Extract(t, c)
         IN [t |-> [u EXCEPT !.kids[p] = InsertAt(@, at, c)], err |-> ""]

\* Tag.append(tag)
AppendChild(t, p, c) == Insert(t, p, Len(t.kids[p]) + 1, c)

\* PageElement.insert_after(successor)
InsertAfter(t, n, c) ==
    LET p == Parent(t, n) IN
    IF p = None THEN [t |-> t, err |-> "ValueError"]
    ELSE Insert(t, p, IndexOf(t.kids[p], n) + 1, c)

Decomposed == "[decomposed]"

\* Tag.decompose: unlink the element and destroy it and everything below it
Decompose(t, n) ==
    LET gone == {n} \cup Range(Descendants(t, n))
        u == Extract(t, n)
    IN [tag |-> [m \in Node |-> IF m \in gone THEN Decomposed ELSE u.tag[m]],
        attrs |-> [m \in Node |-> IF m \in gone THEN {} ELSE u.attrs[m]],
        text |-> [m \in Node |-> IF m \in gone THEN <<>> ELSE u.text[m]],
        kids |-> [m \in Node |-> IF m \in gone THEN <<>> ELSE u.kids[m]]]

Unused == ""

\* an element that exists and has not been decomposed
Live(t, n) == n \in Node /\ t.tag[n] # Unused /\ t.tag[n] # Decomposed

\* new_tag(tag, literal, attrs), allocated at a fresh id
new_tag(t, id, name, literal, attrs) ==
    [t EXCEPT !.tag[id] = name, !.attrs[id] = attrs, !.text[id] = literal,
              !.kids[id] = <<>>]

\* ---- locators ----
\* TagLocator(name, attrs, recursive, limit), CSSLocator(selector,
\* namespaces, limit) and the plain-string shorthand, in one record shape;
\* `name` holds the tag name or the selector string.
TagLocator(name, attrs, recursive, limit) ==
    [kind |-> "TagLocator", name |-> name, attrs |-> attrs,
     recursive |-> recursive, namespaces |-> {}, limit |-> limit]

CSSLocator(selector, namespaces, limit) ==
    [kind |-> "CSSLocator", name |-> selector, attrs |-> {},
     recursive |-> TRUE, namespaces |-> namespaces, limit |-> limit]

PlainStr(s) ==
    [kind |-> "str", name |-> s, attrs |-> {},
     recursive |-> TRUE, namespaces |-> {}, limit |-> None]

\* Python truthiness of a dict
Truthy(d) == d # {}

\* loc(name_selector, attrs, recursive, namespaces, limit): [err, locator]
loc(name_selector, attrs, recursive, namespaces, limit) ==
    IF (Truthy(attrs) \/ recursive) /\ Truthy(namespaces)
    THEN [err |-> "ValueError", locator |-> PlainStr("")]
    ELSE IF Truthy(attrs) \/ recursive = FALSE
    THEN [err |-> "", locator |-> TagLocator(name_selector, attrs, recursive, limit)]
    ELSE [err |-> "", locator |-> CSSLocator(name_selector, namespaces, limit)]

\* ---- queries (bs4 find/find_all, soupsieve select/select_one) ----
\* the compound selectors of a selector string, each with the combinator
\* that links it to the one before
ParseSelector(s) ==
    CASE s = "div p" -> <<[comb |-> "", name |-> "div"], [comb |-> " ", name |-> "p"]>>
      [] s = "h1 + p" -> <<[comb |-> "", name |-> "h1"], [comb |-> "+", name |-> "p"]>>
      [] s = "div > p" -> <<[comb |-> "", name |-> "div"], [comb |-> ">", name |-> "p"]>>
      [] OTHER -> <<[comb |-> "", name |-> s]>>

\* the element sibling just before n, or None
PrevSibling(t, n) ==
    LET p == Parent(t, n) IN
    IF p = None THEN None
    ELSE IF IndexOf(t.kids[p], n) = 1 THEN None
    ELSE t.kids[p][IndexOf(t.kids[p], n) - 1]

RECURSIVE CssMatch(_, _, _)
\* soupsieve: does element n match the parsed selector?  Ancestors and
\* siblings are looked up in the whole tree, not only below the scope.
CssMatch(t, n, sel) ==
    LET c == sel[Len(sel)]
        rest == SubSeq(sel, 1, Len(sel) - 1)
    IN /\ ~IsSoup(t, n)
       /\ t.tag[n] = c.name
       /\ \/ rest = <<>>
          \/ /\ c.comb = " "
             /\ \E a \in Ancestors(t, n) : CssMatch(t, a, rest)
          \/ /\ c.comb = ">"
             /\ Parent(t, n) # None
             /\ CssMatch(t, Parent(t, n), rest)
          \/ /\ c.comb = "+"
             /\ PrevSibling(t, n) # None
             /\ CssMatch(t, PrevSibling(t, n), rest)

\* Tag.select gone wrong: the scope element itself is searched as well
CssSelect_WithRoot(t, root, selector, namespaces, limit) ==
    LET all == SelectSeq(<<root>> \o Descendants(t, root),
                         LAMBDA n : CssMatch(t, n, ParseSelector(selector)))
    IN IF limit = None THEN all ELSE Take(all, limit)

\* Tag.select(selector, namespaces, limit): matching descendants of the
\* scope in document order, the first `limit` of them when a limit is set
CssSelect(t, root, selector, namespaces, limit) ==
    LET all == SelectSeq(Descendants(t, root),
                         LAMBDA n : CssMatch(t, n, ParseSelector(selector)))
    IN IF limit = None THEN all ELSE Take(all, limit)

\* Tag.select_one(selector, namespaces)
CssSelectOne(t, root, selector, namespaces) ==
    LET r == CssSelect(t, root, selector, namespaces, 1) IN
    IF r = <<>> THEN None ELSE r[1]

\* SoupStrainer: name, attribute and string filters on one tag
StrainerMatch(t, n, name, attrs, string) ==
    /\ t.tag[n] = name
    /\ \A f \in attrs : DictHas(t.attrs[n], f[1]) /\ DictGet(t.attrs[n], f[1]) = f[2]
    /\ string # None =>
          /\ StringOf(t, n).has
          /\ StringOf(t, n).s = IntToStr(string)

\* Tag.find_all(name, attrs, recursive, string, limit)
FindAll(t, root, name, attrs, recursive, string, limit) ==
    LET pool == IF recursive THEN Descendants(t, root) ELSE Children(t, root)
        all == SelectSeq(pool, LAMBDA n : StrainerMatch(t, n, name, attrs, string))
    IN IF limit = None THEN all ELSE Take(all, limit)

\* Tag.find(name, attrs, recursive, string)
Find(t, root, name, attrs, recursive, string) ==
    LET r == FindAll(t, root, name, attrs, recursive, string, 1) IN
    IF r = <<>> THEN None ELSE r[1]

\* ---- Markup.select / Markup.select_all ----
NoResult == [err |-> "", kind |-> "None", elem |-> None, elems |-> <<>>,
             has |-> FALSE, val |-> "", txt |-> <<>>, vals |-> <<>>]

Raise(e) == [NoResult EXCEPT !.err = e, !.kind = "raise"]

\* the element the query of select() finds: loc unpacks positionally, so a
\* TagLocator's limit lands in find()'s fourth parameter, `string`; a plain
\* string is first made a CSSLocator
SelectElem(t, markup, l) ==
    IF l.kind = "TagLocator"
    THEN Find(t, markup, l.name, l.attrs, l.recursive, l.limit)
    ELSE IF l.kind = "CSSLocator"
    THEN CssSelectOne(t, markup, l.name, l.namespaces)
    ELSE LET c == CSSLocator(l.name, {}, None) IN
         CssSelectOne(t, markup, c.name, c.namespaces)

\* Markup.select(loc, get_attr, get_text, version) on the tree rooted at
\* markup; get_attr = "" stands for the default None
select(t, markup, l, get_attr, get_text) ==
    IF markup = None THEN Raise("AttributeError")
    ELSE LET result == SelectElem(t, markup, l) IN
         IF get_attr # "" THEN
            IF result = None THEN Raise("AttributeError")
            ELSE [NoResult EXCEPT !.kind = "attr",
                                  !.has = DictHas(t.attrs[result], get_attr),
                                  !.val = IF DictHas(t.attrs[result], get_attr)
                                          THEN DictGet(t.attrs[result], get_attr)
                                          ELSE ""]
         ELSE IF get_text THEN
            IF result = None THEN Raise("AttributeError")
            ELSE [NoResult EXCEPT !.kind = "text", !.txt = Strip(TextOf(t, result))]
         ELSE IF result = None THEN NoResult
         ELSE [NoResult EXCEPT !.kind = "elem", !.elem = result]

\* select_all() gone wrong: a plain string is made a CSSLocator with
\* limit 1
SelectAllElems_StrLimited(t, markup, l) ==
    IF l.kind = "TagLocator"
    THEN FindAll(t, markup, l.name, l.attrs, l.recursive, l.limit, None)
    ELSE IF l.kind = "CSSLocator"
    THEN CssSelect(t, markup, l.name, l.namespaces, l.limit)
    ELSE LET c == CSSLocator(l.name, {}, 1) IN
         CssSelect(t, markup, c.name, c.namespaces, c.limit)

\* the elements the query of select_all() finds; a plain string is first
\* made a CSSLocator
SelectAllElems(t, markup, l) ==
    IF l.kind = "TagLocator"
    THEN FindAll(t, markup, l.name, l.attrs, l.recursive, l.limit, None)
    ELSE IF l.kind = "CSSLocator"
    THEN CssSelect(t, markup, l.name, l.namespaces, l.limit)
    ELSE LET c == CSSLocator(l.name, {}, None) IN
         CssSelect(t, markup, c.name, c.namespaces, c.limit)

\* Markup.select_all(loc, get_attr, get_text, version)
select_all(t, markup, l, get_attr, get_text) ==
    IF markup = None THEN Raise("AttributeError")
    ELSE LET results == SelectAllElems(t, markup, l) IN
         IF get_attr # "" THEN
            [NoResult EXCEPT !.kind = "attrs",
               !.vals = [i \in 1..Len(results) |->
                           IF DictHas(t.attrs[results[i]], get_attr)
                           THEN <<TRUE, DictGet(t.attrs[results[i]], get_attr)>>
                           ELSE <<FALSE, "">>]]
         ELSE IF get_text THEN
            [NoResult EXCEPT !.kind = "texts",
               !.vals = LET kept == SelectSeq(results,
                                      LAMBDA n : Strip(TextOf(t, n)) # <<>>)
                        IN [i \in 1..Len(kept) |-> Strip(TextOf(t, kept[i]))]]
         ELSE [NoResult EXCEPT !.kind = "elems", !.elems = results]

\* ---- editors ----
NotCallable == "not a function"

\* callable(editor)
callable(editor) == editor # NotCallable

\* the state an editor pass threads through: the node store, the next
\* fresh id, the invocations so far and the error that ended the pass
Pass(t, next) == [t |-> t, next |-> next, calls |-> <<>>, err |-> ""]

OutOfIds == "out of ids"

\* quote_caption(figure): a new blockquote holding the element's text is
\* inserted right after it
quote_caption(st, figure) ==
    IF st.next > MaxNode THEN [st EXCEPT !.err = OutOfIds]
    ELSE LET quote == st.next
             t1 == new_tag(st.t, quote, "blockquote", TextOf(st.t, figure), {})
             ia == InsertAfter(t1, figure, quote)
         IN [st EXCEPT !.t = ia.t, !.next = quote + 1, !.err = ia.err]

\* add_byline(markup), the editor of the test suite: a <strong> byline is
\* inserted after the draft's first h1
add_byline(st, d) ==
    IF st.next > MaxNode THEN [st EXCEPT !.err = OutOfIds]
    ELSE LET byline == st.next
             t1 == new_tag(st.t, byline, "strong", <<"B", "y">>, {})
             header == IF d = None THEN None
                       ELSE Find(t1, d, "h1", {}, TRUE, None)
         IN IF header = None
            THEN [st EXCEPT !.t = t1, !.next = byline + 1, !.err = "AttributeError"]
            ELSE LET ia == InsertAfter(t1, header, byline) IN
                 [st EXCEPT !.t = ia.t, !.next = byline + 1, !.err = ia.err]

\* editor(result) for the element editors
CallEditor(st, editor, elem) ==
    LET logged == [st EXCEPT !.calls = Append(@, [fn |-> editor, on |-> "element", arg |-> elem])]
    IN quote_caption(logged, elem)

RECURSIVE ApplyResults(_, _, _)
\* the inner loop of apply(): for result in results: editor(result)
ApplyResults(st, editor, results) ==
    IF results = <<>> \/ st.err # "" THEN st
    ELSE ApplyResults(CallEditor(st, editor, Head(results)), editor, Tail(results))

RECURSIVE ApplyLocations_FirstMatchOnly(_, _, _, _)
\* apply() gone wrong: only the first match of each locator is edited
ApplyLocations_FirstMatchOnly(st, d, editor, locations) ==
    IF locations = <<>> \/ st.err # "" THEN st
    ELSE LET r == select_all(st.t, d, Head(locations), "", FALSE) IN
         IF r.err # "" THEN [st EXCEPT !.err = r.err]
         ELSE ApplyLocations_FirstMatchOnly(
                  ApplyResults(st, editor, Take(r.elems, 1)), d, editor,
                  Tail(locations))

RECURSIVE ApplyLocations_Revisits(_, _, _, _)
\* apply() gone wrong: the match set is evaluated again after the pass and
\* the elements that have come to match are edited as well
ApplyLocations_Revisits(st, d, editor, locations) ==
    IF locations = <<>> \/ st.err # "" THEN st
    ELSE LET r == select_all(st.t, d, Head(locations), "", FALSE) IN
         IF r.err # "" THEN [st EXCEPT !.err = r.err]
         ELSE LET pass == ApplyResults(st, editor, r.elems)
                  again == select_all(pass.t, d, Head(locations), "", FALSE)
                  added == IF again.err # "" THEN <<>>
                           ELSE SelectSeq(again.elems,
                                          LAMBDA n : n \notin Range(r.elems))
              IN ApplyLocations_Revisits(ApplyResults(pass, editor, added),
                                         d, editor, Tail(locations))

RECURSIVE ApplyLocations(_, _, _, _)
\* the outer loop of apply(): each locator is evaluated by select_all on
\* the draft as the earlier locators' passes left it
ApplyLocations(st, d, editor, locations) ==
    IF locations = <<>> \/ st.err # "" THEN st
    ELSE LET r == select_all(st.t, d, Head(locations), "", FALSE) IN
         IF r.err # "" THEN [st EXCEPT !.err = r.err]
         ELSE ApplyLocations(ApplyResults(st, editor, r.elems), d, editor,
                             Tail(locations))

\* apply() gone wrong: the editor is not checked before the loops run
apply_Unchecked(t, next, d, editor, locations) ==
    ApplyLocations(Pass(t, next), d, editor, locations)

\* Markup.apply(editor, *locations)
apply(t, next, d, editor, locations) ==
    IF ~callable(editor) THEN [Pass(t, next) EXCEPT !.err = "AssertionError"]
    ELSE ApplyLocations(Pass(t, next), d, editor, locations)

\* Markup.edit(editor)
edit(t, next, d, editor) ==
    IF ~callable(editor) THEN [Pass(t, next) EXCEPT !.err = "AssertionError"]
    ELSE add_byline([Pass(t, next) EXCEPT
                       !.calls = <<[fn |-> editor, on |-> "document", arg |-> None]>>], d)

\* ---- drop ----
RECURSIVE DecomposeAll(_, _)
\* the inner loop of drop(): for result in results: result.decompose()
DecomposeAll(t, results) ==
    IF results = <<>> THEN t
    ELSE DecomposeAll(Decompose(t, Head(results)), Tail(results))

RECURSIVE DropStaleFrom(_, _, _, _)
DropStaleFrom(t0, t, d, locations) ==
    IF locations = <<>> THEN [t |-> t, err |-> ""]
    ELSE LET r == select_all(t0, d, Head(locations), "", FALSE) IN
         IF r.err # "" THEN [t |-> t, err |-> r.err]
         ELSE DropStaleFrom(t0, DecomposeAll(t, r.elems), d, Tail(locations))

\* drop() gone wrong: every locator is evaluated on the draft as it was
\* when the call began
drop_StaleMatches(t, d, locations) == DropStaleFrom(t, t, d, locations)

\* drop() gone wrong: the method returns after its first locator
drop_FirstLocatorOnly(t, d, locations) ==
    IF locations = <<>> THEN [t |-> t, err |-> ""]
    ELSE LET r == select_all(t, d, Head(locations), "", FALSE) IN
         IF r.err # "" THEN [t |-> t, err |-> r.err]
         ELSE [t |-> DecomposeAll(t, r.elems), err |-> ""]

RECURSIVE drop(_, _, _)
\* Markup.drop(*locations): [t, err]
drop(t, d, locations) ==
    IF locations = <<>> THEN [t |-> t, err |-> ""]
    ELSE LET r == select_all(t, d, Head(locations), "", FALSE) IN
         IF r.err # "" THEN [t |-> t, err |-> r.err]
         ELSE drop(DecomposeAll(t, r.elems), d, Tail(locations))

\* ---- prepend / append ----
RECURSIVE AppendEach(_, _, _)
\* for elem in elems: parent.append(elem), stopping at the first error
AppendEach(t, parent, elems) ==
    IF elems = <<>> THEN [t |-> t, err |-> ""]
    ELSE LET one == AppendChild(t, parent, Head(elems)) IN
         IF one.err # "" THEN one ELSE AppendEach(one.t, parent, Tail(elems))

\* prepend() gone wrong: the prior draft is put in front of the elements
prepend_DraftFirst(t, collect, d, elements) ==
    LET t1 == new_tag(t, collect, "div", <<>>, {})
        r == AppendEach(t1, collect, <<d>> \o elements)
    IN [t |-> r.t, draft |-> IF r.err = "" THEN collect ELSE d, err |-> r.err]

\* prepend() gone wrong: an absent draft is left out of the container
prepend_SkipsAbsentDraft(t, collect, d, elements) ==
    LET t1 == new_tag(t, collect, "div", <<>>, {})
        r == AppendEach(t1, collect, IF d = None THEN elements ELSE elements \o <<d>>)
    IN [t |-> r.t, draft |-> IF r.err = "" THEN collect ELSE d, err |-> r.err]

\* Markup.prepend(*elements): [t, draft, err]; collect is the fresh div
prepend(t, collect, d, elements) ==
    LET t1 == new_tag(t, collect, "div", <<>>, {})
        r == AppendEach(t1, collect, elements \o <<d>>)
    IN [t |-> r.t, draft |-> IF r.err = "" THEN collect ELSE d, err |-> r.err]

\* Markup.append(*elements): [t, err]
append(t, d, elements) ==
    IF elements = <<>> THEN [t |-> t, err |-> ""]
    ELSE IF d = None THEN [t |-> t, err |-> "AttributeError"]
    ELSE AppendEach(t, d, elements)

\* ---- counts ----
\* str(loc), as the pieces of the text: a plain string is itself, a
\* locator is its class name and its fields in order
LocStr(l) ==
    CASE l.kind = "str" -> <<l.name>>
      [] l.kind = "CSSLocator" ->
           <<"CSSLocator(selector=", l.name, ", namespaces=", l.namespaces,
             ", limit=", l.limit, ")">>
      [] l.kind = "TagLocator" ->
           <<"TagLocator(name=", l.name, ", attrs=", l.attrs, ", recursive=",
             l.recursive, ", limit=", l.limit, ")">>

RECURSIVE CountLocations(_, _, _, _)
\* the loop of counts() over its locators: the entry is reset to 0 and
\* then raised once per element select_all returns
CountLocations(t, d, locations, loc_count) ==
    IF locations = <<>> THEN [err |-> "", table |-> most_common(loc_count)]
    ELSE LET r == select_all(t, d, Head(locations), "", FALSE) IN
         IF r.err # "" THEN [err |-> r.err, table |-> <<>>]
         ELSE CountLocations(t, d, Tail(locations),
                             OSet(loc_count, LocStr(Head(locations)), Len(r.elems)))

RECURSIVE CountLocations_Dedup(_, _, _, _, _)
\* counts() gone wrong: an element counted for one locator is not counted
\* again for a later one
CountLocations_Dedup(t, d, locations, loc_count, seen) ==
    IF locations = <<>> THEN [err |-> "", table |-> most_common(loc_count)]
    ELSE LET r == select_all(t, d, Head(locations), "", FALSE) IN
         IF r.err # "" THEN [err |-> r.err, table |-> <<>>]
         ELSE CountLocations_Dedup(t, d, Tail(locations),
                  OSet(loc_count, LocStr(Head(locations)),
                       Len(SelectSeq(r.elems, LAMBDA n : n \notin seen))),
                  seen \cup Range(r.elems))

\* counts() gone wrong: see CountLocations_Dedup
counts_Deduplicated(t, d, locations) ==
    IF locations # <<>> THEN CountLocations_Dedup(t, d, locations, <<>>, {})
    ELSE IF d = None THEN [err |-> "AttributeError", table |-> <<>>]
    ELSE LET elems == Descendants(t, d) IN
         [err |-> "",
          table |-> most_common(CounterOf([i \in 1..Len(elems) |-> t.tag[elems[i]]], <<>>))]

\* Markup.counts(*locations): [err, table]; without locators, the tag
\* names of the draft's elements are counted
counts(t, d, locations) ==
    IF locations # <<>> THEN CountLocations(t, d, locations, <<>>)
    ELSE IF d = None THEN [err |-> "AttributeError", table |-> <<>>]
    ELSE LET elems == Descendants(t, d) IN
         [err |-> "",
          table |-> most_common(CounterOf([i \in 1..Len(elems) |-> t.tag[elems[i]]], <<>>))]

\* ---- to_html ----
RECURSIVE PrettifyAll(_, _, _)
RECURSIVE Prettify(_, _, _)
\* Tag.prettify: the lines of the indented rendering, each with its depth
Prettify(t, n, depth) ==
    IF IsSoup(t, n) THEN PrettifyAll(t, t.kids[n], depth)
    ELSE <<[indent |-> depth, line |-> "open", tag |-> t.tag[n], attrs |-> t.attrs[n],
            text |-> <<>>]>>
         \o (IF Strip(t.text[n]) = <<>> THEN <<>>
             ELSE <<[indent |-> depth + 1, line |-> "text", tag |-> "", attrs |-> {},
                     text |-> Strip(t.text[n])]>>)
         \o PrettifyAll(t, t.kids[n], depth + 1)
         \o (IF t.tag[n] = "meta" THEN <<>>
             ELSE <<[indent |-> depth, line |-> "close", tag |-> t.tag[n], attrs |-> {},
                     text |-> <<>>]>>)

PrettifyAll(t, s, depth) ==
    IF s = <<>> THEN <<>>
    ELSE Prettify(t, Head(s), depth) \o PrettifyAll(t, Tail(s), depth)

\* Markup.to_html(): [err, html]
to_html(t, d) ==
    IF d = None THEN [err |-> "AttributeError", html |-> <<>>]
    ELSE [err |-> "", html |-> Prettify(t, d, 0)]

\* ---- the document under test ----
\* <meta property="og:description" content="a, b">
\* <meta property="article:tag" content="A">
\* <title>T</title><div><h1>H</h1><p id="a"> x </p><div><p>1</p></div></div>
\* as html.parser builds it: node 1 is the BeautifulSoup object
FixtureTag == <<DocumentTag, "meta", "meta", "title", "div", "h1", "p", "div", "p">>

FixtureAttrs ==
    <<{}, {<<"property", "og:description">>, <<"content", "a, b">>},
      {<<"property", "article:tag">>, <<"content", "A">>},
      {}, {}, {}, {<<"id", "a">>}, {}, {}>>

FixtureText ==
    <<<<>>, <<>>, <<>>, <<"T">>, <<>>, <<"H">>, <<" ", "x", " ">>, <<>>, <<"1">>>>

FixtureKids == <<<<2, 3, 4, 5>>, <<>>, <<>>, <<>>, <<6, 7, 8>>, <<>>, <<>>, <<9>>, <<>>>>

DocSize == Len(FixtureTag)

FixtureUrl == "tests/test.html"

\* copy.copy(original): the same structure on fresh node identities
\* (node n of the original becomes node n + DocSize)
CopyTree(t) ==
    LET src(m) == m - DocSize
        isCopy(m) == m > DocSize /\ m <= 2 * DocSize
    IN [tag |-> [m \in Node |-> IF isCopy(m) THEN t.tag[src(m)] ELSE t.tag[m]],
        attrs |-> [m \in Node |-> IF isCopy(m) THEN t.attrs[src(m)] ELSE t.attrs[m]],
        text |-> [m \in Node |-> IF isCopy(m) THEN t.text[src(m)] ELSE t.text[m]],
        kids |-> [m \in Node |-> IF isCopy(m)
                                 THEN [i \in 1..Len(t.kids[src(m)]) |->
                                         t.kids[src(m)][i] + DocSize]
                                 ELSE t.kids[m]]]

CopyRoot(root) == root + DocSize

\* ---- metadata and properties ----
DEFAULT_META_ARRAYS ==
    {"article:author", "article:tag", "book:author", "book:tag", "music:album",
     "music:musician", "og:locale:alternate", "video:actor", "video:director",
     "video:tag", "video:writer"}

\* a value held in metadata or properties: a string, None, an int, or a
\* list of values
StrVal(s) == [kind |-> "str", s |-> s, items |-> <<>>]

NoneVal == [kind |-> "None", s |-> "", items |-> <<>>]

ListVal(items) == [kind |-> "list", s |-> "", items |-> items]

IntVal(k) == [kind |-> "int", s |-> "", items |-> <<k>>]

\* a NavigableString (a str subclass), held by its characters
TextVal(chars) == [kind |-> "text", s |-> "", items |-> chars]

\* dict.get(k)
MetaGet(d, k) == IF DictHas(d, k) THEN DictGet(d, k) ELSE NoneVal

\* d[k] = v
DictSet(d, k, v) == {p \in d : p[1] # k} \cup {<<k, v>>}

\* tag.attrs.get(k) as a value
AttrVal(a, k) == IF DictHas(a, k) THEN StrVal(DictGet(a, k)) ELSE NoneVal

\* Python truthiness of a value
TruthyVal(v) ==
    \/ v.kind = "str" /\ v.s # ""
    \/ v.kind = "text" /\ v.items # <<>>
    \/ v.kind = "list" /\ v.items # <<>>
    \/ v.kind = "int" /\ v.items # <<0>>

\* coalesce(a, b): the first truthy argument, else None
coalesce(a, b) == IF TruthyVal(a) THEN a ELSE IF TruthyVal(b) THEN b ELSE NoneVal

\* the key None of a dict, which no attribute value of a document equals
NoneKey == "<None>"

\* the attributes of a meta element that are tried after property and
\* name: every attribute but content (the documents here give a meta
\* element at most one of them, so their order does not matter)
OtherKeyTerms(a) == {p \in a : p[1] \notin {"content", "property", "name"} /\ p[2] # ""}

\* the identifying key of a meta element: the first truthy of property,
\* name and the other attributes' values; None when there is none
MetaKey(a) ==
    LET first == coalesce(AttrVal(a, "property"), AttrVal(a, "name")) IN
    IF TruthyVal(first) THEN first
    ELSE IF OtherKeyTerms(a) # {}
    THEN StrVal((CHOOSE p \in OtherKeyTerms(a) : TRUE)[2])
    ELSE NoneVal

\* a key as the dict holds it
KeyOf(v) == IF v.kind = "None" THEN NoneKey ELSE v.s

RECURSIVE GatherFrom(_, _, _, _)
\* the loop of gather_meta over the meta elements, in document order
GatherFrom(t, tags, arrays, m) ==
    IF tags = <<>> THEN m
    ELSE LET a == t.attrs[Head(tags)]
             key == KeyOf(MetaKey(a))
             value == AttrVal(a, "content")
             old == IF DictHas(m, key) THEN DictGet(m, key).items ELSE <<>>
             new == IF key \in DEFAULT_META_ARRAYS \cup arrays
                    THEN ListVal(Append(old, value))
                    ELSE value
         IN GatherFrom(t, Tail(tags), arrays, DictSet(m, key, new))

\* meta_keys of gather_meta: the key of every meta element, in document
\* order
MetaKeys(t, orig) ==
    LET tags == FindAll(t, orig, "meta", {}, TRUE, None, None) IN
    [i \in 1..Len(tags) |-> KeyOf(MetaKey(t.attrs[tags[i]]))]

\* Markup.gather_meta(): reads the meta elements of original
gather_meta(t, orig, arrays) ==
    GatherFrom(t, FindAll(t, orig, "meta", {}, TRUE, None, None), arrays, {})

\* gather_meta(counts=True) gone wrong: the table is left in the order the
\* keys were met
gather_meta_counts_Unsorted(t, orig) == CounterOf(MetaKeys(t, orig), <<>>)

\* Markup.gather_meta(counts=True)
gather_meta_counts(t, orig) == most_common(CounterOf(MetaKeys(t, orig), <<>>))

\* ---- properties ----
\* the characters of a string; a string without comma or space is kept as
\* one unit
Chars(s) ==
    CASE s = "a, b" -> <<"a", ",", " ", "b">>
      [] s = "x, y" -> <<"x", ",", " ", "y">>
      [] s = "" -> <<>>
      [] OTHER -> <<s>>

\* the characters of a str value
CharsOf(v) == IF v.kind = "text" THEN v.items ELSE Chars(v.s)

IsStr(v) == v.kind \in {"str", "text"}

\* sub in chars
Contains(chars, sub) ==
    \E i \in 1..(Len(chars) - Len(sub) + 1) : SubSeq(chars, i, i + Len(sub) - 1) = sub

RECURSIVE Join(_, _)
\* sep.join(items) for a list of str values
Join(sep, items) ==
    IF items = <<>> THEN <<>>
    ELSE IF Len(items) = 1 THEN CharsOf(items[1])
    ELSE CharsOf(items[1]) \o sep \o Join(sep, Tail(items))

\* str(value) for a value that is not a list
Str(v) ==
    CASE IsStr(v) -> CharsOf(v)
      [] v.kind = "None" -> <<"N", "o", "n", "e">>
      [] v.kind = "int" -> IntToStr(v.items[1])

\* self.original.title.string as a value; None for a title that has no
\* single string
TitleString(t, title) ==
    IF StringOf(t, title).has THEN TextVal(StringOf(t, title).s) ELSE NoneVal

\* Markup.set_properties(): [err, properties]; both arguments of coalesce
\* are evaluated before the call, so a document without a title element
\* fails on None.string
set_properties(t, orig, m, url) ==
    LET title == Find(t, orig, "title", {}, TRUE, None) IN
    IF title = None THEN [err |-> "AttributeError", properties |-> <<>>]
    ELSE [err |-> "",
          properties |->
            <<<<"headline", coalesce(MetaGet(m, "og:title"), TitleString(t, title))>>,
              <<"description", MetaGet(m, "og:description")>>,
              <<"publisher", MetaGet(m, "og:site_name")>>,
              <<"url", url>>>>]

RECURSIVE add_properties_KeepOld(_, _)
\* add_properties gone wrong: a key that is already there keeps its value
add_properties_KeepOld(props, m) ==
    IF m = <<>> THEN props
    ELSE add_properties_KeepOld(IF OHas(props, Head(m)[1]) THEN props
                                ELSE OSet(props, Head(m)[1], Head(m)[2]),
                                Tail(m))

RECURSIVE add_properties(_, _)
\* Markup.add_properties(properties): self.properties.update(properties)
add_properties(props, m) ==
    IF m = <<>> THEN props
    ELSE add_properties(OSet(props, Head(m)[1], Head(m)[2]), Tail(m))

\* the three conversions properties_block applies to a value, in the
\* order of the code: [err, value]
Quoted(v) ==
    IF IsStr(v) /\ Contains(CharsOf(v), <<",", " ">>)
    THEN TextVal(<<"\"">> \o CharsOf(v) \o <<"\"">>)
    ELSE v

\* properties_block gone wrong: a list is joined without the trailing comma
Joined_NoTrailingComma(v) ==
    IF v.kind # "list" THEN [err |-> "", value |-> v]
    ELSE IF \E i \in 1..Len(v.items) : ~IsStr(v.items[i])
    THEN [err |-> "TypeError", value |-> v]
    ELSE [err |-> "", value |-> TextVal(Join(<<",", " ">>, v.items))]

Joined(v) ==
    IF v.kind # "list" THEN [err |-> "", value |-> v]
    ELSE IF \E i \in 1..Len(v.items) : ~IsStr(v.items[i])
    THEN [err |-> "TypeError", value |-> v]
    ELSE [err |-> "", value |-> TextVal(Join(<<",", " ">>, v.items) \o <<",">>)]

RECURSIVE BlockFrom(_, _)
\* the loop of properties_block over the items of properties
BlockFrom(props, block) ==
    IF props = <<>> THEN [err |-> "", block |-> block]
    ELSE LET key == Head(props)[1]
             j == Joined(Quoted(Head(props)[2]))
         IN IF j.err # "" THEN [err |-> j.err, block |-> block]
            ELSE BlockFrom(Tail(props),
                           block \o Chars(key) \o <<":", ":", " ">> \o Str(j.value)
                                 \o <<"\n">>)

\* Markup.properties_block(): [err, block]
properties_block(props) == BlockFrom(props, <<>>)

\* ---- construction ----
Fixture ==
    [tag |-> FixtureTag, attrs |-> FixtureAttrs, text |-> FixtureText,
     kids |-> FixtureKids]

\* <meta property="og:title" content="OG"><div><p>1</p></div>
PageNoTitle ==
    [tag |-> <<DocumentTag, "meta", "div", "p">>,
     attrs |-> <<{}, {<<"property", "og:title">>, <<"content", "OG">>}, {}, {}>>,
     text |-> <<<<>>, <<>>, <<>>, <<"1">>>>,
     kids |-> <<<<2, 3>>, <<>>, <<4>>, <<>>>>]

\* <meta property="og:title" content="OG">
\* <meta property="og:site_name" content="S"><title>T</title>
PageOgTitle ==
    [tag |-> <<DocumentTag, "meta", "meta", "title">>,
     attrs |-> <<{}, {<<"property", "og:title">>, <<"content", "OG">>},
                 {<<"property", "og:site_name">>, <<"content", "S">>}, {}>>,
     text |-> <<<<>>, <<>>, <<>>, <<"T">>>>,
     kids |-> <<<<2, 3, 4>>, <<>>, <<>>, <<>>>>]

\* <meta property="og:title" content=""><title>T</title>
PageEmptyOgTitle ==
    [tag |-> <<DocumentTag, "meta", "title">>,
     attrs |-> <<{}, {<<"property", "og:title">>, <<"content", "">>}, {}>>,
     text |-> <<<<>>, <<>>, <<"T">>>>,
     kids |-> <<<<2, 3>>, <<>>, <<>>>>]

\* <meta charset="UTF-8"><meta property="article:tag" content="Publishing">
\* <meta property="article:tag" content="Article">
\* <meta name="keywords" content="k1"><meta name="keywords" content="k2">
\* <title></title>
PageArrays ==
    [tag |-> <<DocumentTag, "meta", "meta", "meta", "meta", "meta", "title">>,
     attrs |-> <<{}, {<<"charset", "UTF-8">>},
                 {<<"property", "article:tag">>, <<"content", "Publishing">>},
                 {<<"property", "article:tag">>, <<"content", "Article">>},
                 {<<"name", "keywords">>, <<"content", "k1">>},
                 {<<"name", "keywords">>, <<"content", "k2">>}, {}>>,
     text |-> <<<<>>, <<>>, <<>>, <<>>, <<>>, <<>>, <<>>>>,
     kids |-> <<<<2, 3, 4, 5, 6, 7>>, <<>>, <<>>, <<>>, <<>>, <<>>, <<>>>>]

\* <div><p>1</p></div>
PageBare ==
    [tag |-> <<DocumentTag, "div", "p">>,
     attrs |-> <<{}, {}, {}>>,
     text |-> <<<<>>, <<>>, <<"1">>>>,
     kids |-> <<<<2>>, <<3>>, <<>>>>]

\* <meta content="x"><meta name="keywords"><title>T</title>
PageOddMeta ==
    [tag |-> <<DocumentTag, "meta", "meta", "title">>,
     attrs |-> <<{}, {<<"content", "x">>}, {<<"name", "keywords">>}, {}>>,
     text |-> <<<<>>, <<>>, <<>>, <<"T">>>>,
     kids |-> <<<<2, 3, 4>>, <<>>, <<>>, <<>>>>]

Pages ==
    {Fixture, PageNoTitle, PageOgTitle, PageEmptyOgTitle, PageArrays, PageBare,
     PageOddMeta}

\* BeautifulSoup(markup, parser), built at ids 1..
BeautifulSoup(page) ==
    LET size == Len(page.tag) IN
    [tag |-> [n \in Node |-> IF n <= size THEN page.tag[n] ELSE Unused],
     attrs |-> [n \in Node |-> IF n <= size THEN page.attrs[n] ELSE {}],
     text |-> [n \in Node |-> IF n <= size THEN page.text[n] ELSE <<>>],
     kids |-> [n \in Node |-> IF n <= size THEN page.kids[n] ELSE <<>>]]

\* a node store without elements
NoTree ==
    [tag |-> [n \in Node |-> Unused], attrs |-> [n \in Node |-> {}],
     text |-> [n \in Node |-> <<>>], kids |-> [n \in Node |-> <<>>]]

ShortUrl == "https://sho.rt/x"

\* unshorten_url: the redirects are followed; the short URL redirects to a
\* long one
unshorten_url(url) == IF url = ShortUrl THEN "https://e.x/a?utm=1" ELSE url

\* trim_url: the query string is removed
trim_url(url) == IF url = "https://e.x/a?utm=1" THEN "https://e.x/a" ELSE url

\* prepare_url(url, unshorten, trim, headers)
prepare_url(url, unshorten, trim) ==
    LET u == IF unshorten THEN unshorten_url(url) ELSE url IN
    IF trim THEN trim_url(u) ELSE u

\* the attributes of self that a completed __init__ has set
AllFields == {"url", "original", "draft", "meta_arrays", "meta", "properties"}

\* __init__ gone wrong: only the call without any source is rejected
SourceError_NeitherOnly(url, filepath) == ~(TruthyVal(url) \/ TruthyVal(filepath))

\* the two guards that open __init__: not any((url, filepath)), then
\* all((url, filepath))
SourceError(url, filepath) ==
    IF ~(TruthyVal(url) \/ TruthyVal(filepath)) THEN TRUE
    ELSE TruthyVal(url) /\ TruthyVal(filepath)

\* Markup.__init__(url, filepath, unshorten=, trim=, meta_arrays=), with
\* the page found at the source: the outcome, the attributes of self that
\* got set, and the steps taken
Markup(url, filepath, unshorten, trim, page, arrays) ==
    LET failed == [err |-> "ValueError", log |-> <<>>, fields |-> {}, tree |-> NoTree,
                   original |-> None, draft |-> None, meta_arrays |-> {}, meta |-> {},
                   properties |-> <<>>]
    IN IF SourceError(url, filepath) THEN failed
       ELSE LET self_url == IF TruthyVal(url)
                            THEN StrVal(prepare_url(url.s, unshorten, trim))
                            ELSE filepath
                fetch == IF TruthyVal(url) THEN <<"prepare_url", "httpx.get">>
                         ELSE <<"open">>
                t0 == BeautifulSoup(page)
                m == gather_meta(t0, 1, arrays)
                p == set_properties(t0, 1, m, self_url)
            IN [err |-> p.err,
                log |-> fetch \o <<"BeautifulSoup", "copy", "gather_meta",
                                   "set_properties">>,
                fields |-> (AllFields \ {"properties"})
                           \cup (IF TruthyVal(url) THEN {"headers"} ELSE {})
                           \cup (IF p.err = "" THEN {"properties"} ELSE {}),
                tree |-> CopyTree(t0), original |-> 1, draft |-> CopyRoot(1),
                meta_arrays |-> arrays, meta |-> m, properties |-> p.properties]

\* fetch_content(filepath=FixtureUrl): the parsed fixture
fetch_content == BeautifulSoup(Fixture)

\* ---- inputs ----
StrP == PlainStr("p")

StrH1 == PlainStr("h1")

CssDiv == CSSLocator("div", {}, None)

CssAdj == CSSLocator("h1 + p", {}, None)

TagPa == TagLocator("p", {<<"id", "a">>}, TRUE, None)

TagPDirect == TagLocator("p", {}, FALSE, None)

TagPLim == TagLocator("p", {}, TRUE, 1)

CssP == CSSLocator("p", {}, None)

CssPLim == CSSLocator("p", {}, 1)

Locs == {StrP, StrH1, CssDiv, CssAdj, TagPa, TagPDirect, TagPLim}

PairLocs == {StrH1, CssDiv, CssAdj, TagPa}

LocLists ==
    {<<>>} \cup {<<l>> : l \in Locs} \cup {<<a, b>> : a \in PairLocs, b \in PairLocs}

ApplyLists ==
    {<<>>} \cup {<<l>> : l \in Locs} \cup {<<StrP, TagPa>>, <<CssAdj, StrP>>, <<StrP, StrP>>, <<StrH1, CssAdj>>}
    \cup {<<PlainStr("blockquote")>>, <<TagPa, PlainStr("blockquote")>>}

\* <<locator, get_attr, get_text, version>>
SelectArgs ==
    {<<l, "", FALSE, "draft">> : l \in Locs}
    \cup {<<l, o[1], o[2], "draft">> :
            l \in {StrP, CssAdj, TagPDirect},
            o \in {<<"id", FALSE>>, <<"", TRUE>>, <<"id", TRUE>>}}
    \cup {<<l, "", FALSE, "original">> : l \in {StrP, CssDiv}}

SelectAllArgs ==
    {<<l, "", FALSE, "draft">> : l \in {StrP, CssAdj, TagPLim, CssPLim}}
    \cup {<<StrP, "id", FALSE, "draft">>, <<StrP, "", TRUE, "draft">>,
          <<CssDiv, "", FALSE, "original">>}

\* the locator lists handed to counts()
CountLists ==
    {<<>>, <<StrP>>, <<CssP>>, <<StrH1, TagPLim>>, <<StrP, TagPa>>, <<CssDiv, StrP>>,
     <<CssPLim, CssDiv>>, <<StrP, StrP>>}

\* the mappings handed to add_properties(), as their items in order
PropertyMaps ==
    {<<<<"authors", ListVal(<<StrVal("A")>>)>>>>,
     <<<<"headline", StrVal("x, y")>>, <<"tags", ListVal(<<StrVal("A"), StrVal("a, b")>>)>>>>,
     <<<<"rating", IntVal(5)>>, <<"headline", ListVal(<<>>)>>>>}

\* stands in an argument list for an element the caller builds for the
\* call with new_tag("p", "t")
Fresh == MaxNode + 1

\* the element lists a caller can hand to prepend/append: up to two of the
\* live elements it holds (from select or select_all) or builds for the call
ElemLists(t, h) ==
    LET pool == {n \in h : Live(t, n)} \cup {Fresh} IN
    {<<>>} \cup {<<a>> : a \in pool}
           \cup {<<a, b>> : a \in pool, b \in pool \ {Fresh}}
           \cup {<<a, Fresh>> : a \in pool \ {Fresh}}

\* the argument list with the caller's new element at id
Resolve(es, id) == [i \in 1..Len(es) |-> IF es[i] = Fresh THEN id ELSE es[i]]

\* ---- state ----
NoLast ==
    [op |-> "init", input |-> <<>>, locs |-> <<>>, elems |-> <<>>, editor |-> "",
     getAttr |-> "", getText |-> FALSE, version |-> "draft",
     res |-> NoResult, calls |-> <<>>, table |-> <<>>, dict |-> {}, out |-> <<>>,
     err |-> ""]

Snapshot ==
    [tree |-> tree, draft |-> draft, meta |-> meta, properties |-> properties,
     nextId |-> nextId]

\* getattr(self, version)
Version(v) == IF v = "draft" THEN draft ELSE original

\* Markup(filepath="tests/test.html")
Built == Markup(NoneVal, StrVal(FixtureUrl), TRUE, TRUE, Fixture, {})

\* the state after construction: original is parsed, draft is a copy of
\* it, metadata and properties are gathered from original
Init ==
    /\ tree = Built.tree
    /\ original = Built.original
    /\ draft = Built.draft
    /\ meta_arrays = Built.meta_arrays
    /\ meta = Built.meta
    /\ properties = Built.properties
    /\ fields = Built.fields
    /\ nextId = 2 * DocSize + 1
    /\ held = {}
    /\ last = NoLast
    /\ prev = [tree |-> Built.tree, draft |-> Built.draft, meta |-> Built.meta,
               properties |-> Built.properties, nextId |-> 2 * DocSize + 1]
    /\ ops = 0

\* one call on the Markup object
Step ==
    /\ ops < MaxOps
    /\ ops' = ops + 1
    /\ prev' = Snapshot

Select(l, ga, gt, v) ==
    LET r == select(tree, Version(v), l, ga, gt) IN
    /\ Step
    /\ held' = IF r.kind = "elem" THEN held \cup {r.elem} ELSE held
    /\ last' = [NoLast EXCEPT !.op = "select", !.locs = <<l>>, !.getAttr = ga,
                              !.getText = gt, !.version = v, !.res = r,
                              !.err = r.err]
    /\ UNCHANGED <<fields, meta_arrays, tree, original, draft, meta, properties, nextId>>

SelectAll(l, ga, gt, v) ==
    LET r == select_all(tree, Version(v), l, ga, gt) IN
    /\ Step
    /\ held' = held \cup Range(r.elems)
    /\ last' = [NoLast EXCEPT !.op = "select_all", !.locs = <<l>>, !.getAttr = ga,
                              !.getText = gt, !.version = v, !.res = r,
                              !.err = r.err]
    /\ UNCHANGED <<fields, meta_arrays, tree, original, draft, meta, properties, nextId>>

\* filter() gone wrong: the match is looked up in original, not in draft
Filter_FromOriginal(l) ==
    LET r == select(tree, original, l, "", FALSE) IN
    /\ Step
    /\ draft' = IF r.err # "" THEN draft ELSE r.elem
    /\ last' = [NoLast EXCEPT !.op = "filter", !.locs = <<l>>, !.res = r,
                              !.err = r.err]
    /\ UNCHANGED <<fields, meta_arrays, tree, original, meta, properties, nextId, held>>

\* Markup.filter(loc): self.draft = self.select(loc)
Filter(l) ==
    LET r == select(tree, draft, l, "", FALSE) IN
    /\ Step
    /\ draft' = IF r.err # "" THEN draft ELSE r.elem
    /\ last' = [NoLast EXCEPT !.op = "filter", !.locs = <<l>>, !.res = r,
                              !.err = r.err]
    /\ UNCHANGED <<fields, meta_arrays, tree, original, meta, properties, nextId, held>>

Drop(ls) ==
    LET r == drop(tree, draft, ls) IN
    /\ Step
    /\ tree' = r.t
    /\ last' = [NoLast EXCEPT !.op = "drop", !.locs = ls, !.err = r.err]
    /\ UNCHANGED <<fields, meta_arrays, original, draft, meta, properties, nextId, held>>

Apply(editor, ls) ==
    LET r == apply(tree, nextId, draft, editor, ls) IN
    /\ Step
    /\ r.err # OutOfIds
    /\ tree' = r.t
    /\ nextId' = r.next
    /\ last' = [NoLast EXCEPT !.op = "apply", !.locs = ls, !.editor = editor,
                              !.calls = r.calls, !.err = r.err]
    /\ UNCHANGED <<fields, meta_arrays, original, draft, meta, properties, held>>

Edit(editor) ==
    LET r == edit(tree, nextId, draft, editor) IN
    /\ Step
    /\ r.err # OutOfIds
    /\ tree' = r.t
    /\ nextId' = r.next
    /\ last' = [NoLast EXCEPT !.op = "edit", !.editor = editor,
                              !.calls = r.calls, !.err = r.err]
    /\ UNCHANGED <<fields, meta_arrays, original, draft, meta, properties, held>>

\* the caller's new element, when the argument list has one, is built
\* before the call
WithFresh(t, id, es) ==
    IF Fresh \in Range(es) THEN new_tag(t, id, "p", <<"t">>, {}) ELSE t

FreshCount(es) == IF Fresh \in Range(es) THEN 1 ELSE 0

Prepend(es) ==
    LET collect == nextId + FreshCount(es) IN
    /\ Step
    /\ collect <= MaxNode
    /\ LET r == prepend(WithFresh(tree, nextId, es), collect, draft,
                        Resolve(es, nextId)) IN
       /\ tree' = r.t
       /\ draft' = r.draft
       /\ last' = [NoLast EXCEPT !.op = "prepend", !.elems = Resolve(es, nextId),
                                 !.err = r.err]
    /\ nextId' = collect + 1
    /\ UNCHANGED <<fields, meta_arrays, original, meta, properties, held>>

\* an ancestor of the draft root is not offered to append: bs4 would link
\* the tree into a cycle
MarkupAppend(es) ==
    /\ Step
    /\ nextId + FreshCount(es) <= MaxNode + 1
    /\ draft # None => Range(es) \cap Ancestors(tree, draft) = {}
    /\ LET r == append(WithFresh(tree, nextId, es), draft, Resolve(es, nextId)) IN
       /\ tree' = r.t
       /\ last' = [NoLast EXCEPT !.op = "append", !.elems = Resolve(es, nextId),
                                 !.err = r.err]
    /\ nextId' = nextId + FreshCount(es)
    /\ UNCHANGED <<fields, meta_arrays, original, draft, meta, properties, held>>

\* Markup.counts(*locations)
Counts(ls) ==
    LET r == counts(tree, draft, ls) IN
    /\ Step
    /\ last' = [NoLast EXCEPT !.op = "counts", !.locs = ls, !.table = r.table,
                              !.err = r.err]
    /\ UNCHANGED <<fields, meta_arrays, tree, original, draft, meta, properties, nextId, held>>

\* gather_meta() gone wrong: the meta elements are read from draft
GatherMeta_FromDraft(c) ==
    /\ Step
    /\ "properties" \in fields
    /\ draft # None
    /\ last' = [NoLast EXCEPT !.op = "gather_meta", !.input = <<c>>,
                  !.table = IF c THEN gather_meta_counts(tree, draft) ELSE <<>>,
                  !.dict = IF c THEN {} ELSE gather_meta(tree, draft, meta_arrays)]
    /\ UNCHANGED <<fields, meta_arrays, tree, original, draft, meta, properties, nextId, held>>

\* Markup.gather_meta(counts): the result goes to the caller, self.meta is
\* not assigned
GatherMeta(c) ==
    /\ Step
    /\ "properties" \in fields
    /\ last' = [NoLast EXCEPT !.op = "gather_meta", !.input = <<c>>,
                  !.table = IF c THEN gather_meta_counts(tree, original) ELSE <<>>,
                  !.dict = IF c THEN {} ELSE gather_meta(tree, original, meta_arrays)]
    /\ UNCHANGED <<fields, meta_arrays, tree, original, draft, meta, properties, nextId, held>>

\* Markup.add_properties(properties)
AddProperties(m) ==
    /\ Step
    /\ properties' = add_properties(properties, m)
    /\ last' = [NoLast EXCEPT !.op = "add_properties", !.input = m]
    /\ UNCHANGED <<fields, meta_arrays, tree, original, draft, meta, nextId, held>>

\* Markup.properties_block()
PropertiesBlock ==
    LET r == properties_block(properties) IN
    /\ Step
    /\ "properties" \in fields
    /\ last' = [NoLast EXCEPT !.op = "properties_block", !.out = r.block,
                              !.err = r.err]
    /\ UNCHANGED <<fields, meta_arrays, tree, original, draft, meta, properties, nextId, held>>

\* Markup.to_html()
ToHtml ==
    LET r == to_html(tree, draft) IN
    /\ Step
    /\ last' = [NoLast EXCEPT !.op = "to_html", !.out = r.html, !.err = r.err]
    /\ UNCHANGED <<fields, meta_arrays, tree, original, draft, meta, properties, nextId, held>>

Next ==
    \/ \E a \in SelectArgs : Select(a[1], a[2], a[3], a[4])
    \/ \E a \in SelectAllArgs : SelectAll(a[1], a[2], a[3], a[4])
    \/ \E l \in Locs : Filter(l)
    \/ \E ls \in LocLists : Drop(ls)
    \/ \E ls \in ApplyLists : Apply("quote_caption", ls)
    \/ \E ls \in {<<>>, <<StrP>>} : Apply(NotCallable, ls)
    \/ \E e \in {"add_byline", NotCallable} : Edit(e)
    \/ \E es \in ElemLists(tree, held) : Prepend(es)
    \/ \E es \in ElemLists(tree, held) : MarkupAppend(es)
    \/ \E ls \in CountLists : Counts(ls)
    \/ \E c \in BOOLEAN : GatherMeta(c)
    \/ \E m \in PropertyMaps : AddProperties(m)
    \/ PropertiesBlock
    \/ ToHtml

Spec == Init /\ [][Next]_vars

TypeOK ==
    /\ draft \in Node \cup {None}
    /\ original \in Node
    /\ held \subseteq Node
    /\ nextId \in Node \cup {MaxNode + 1}
    /\ ops \in 0..MaxOps

\* ---- loc() on its own ----
LocNames == {"div", "p", "h1 + p"}

LocAttrs == {{}, {<<"id", "a">>}, {<<"class", "x">>}}

LocNamespaces == {{}, {<<"a", "b">>}, {<<"svg", "http://www.w3.org/2000/svg">>}}

LocLimits == {None, 1}

\* one call loc(name_selector, attrs, recursive, namespaces, limit)
LocCall(n, a, r, ns, lim) ==
    LET res == loc(n, a, r, ns, lim) IN
    /\ last' = [NoLast EXCEPT !.op = "loc", !.input = <<n, a, r, ns, lim>>,
                              !.locs = IF res.err = "" THEN <<res.locator>> ELSE <<>>,
                              !.err = res.err]
    /\ UNCHANGED <<fields, meta_arrays, tree, original, draft, meta, properties, nextId, held, prev, ops>>

NextLoc ==
    \E n \in LocNames, a \in LocAttrs, r \in BOOLEAN, ns \in LocNamespaces,
       lim \in LocLimits : LocCall(n, a, r, ns, lim)

SpecLoc == Init /\ [][NextLoc]_vars

\* ---- construction on its own ----
NewUrls == {NoneVal, StrVal(""), StrVal(ShortUrl)}

NewFilepaths == {NoneVal, StrVal(""), StrVal(FixtureUrl)}

NewMetaArrays == {{}, {"keywords"}}

\* before Markup(...) is called there is no object
InitNew ==
    /\ tree = NoTree
    /\ original = None
    /\ draft = None
    /\ meta_arrays = {}
    /\ meta = {}
    /\ properties = <<>>
    /\ fields = {}
    /\ nextId = 2 * DocSize + 1
    /\ held = {}
    /\ last = NoLast
    /\ prev = [tree |-> NoTree, draft |-> None, meta |-> {}, properties |-> <<>>,
               nextId |-> 2 * DocSize + 1]
    /\ ops = 0

\* one call Markup(url=, filepath=, unshorten=, trim=, meta_arrays=)
New(url, filepath, unshorten, trim, page, arrays) ==
    LET m == Markup(url, filepath, unshorten, trim, page, arrays) IN
    /\ last.op = "init"
    /\ fields = {}
    /\ tree' = m.tree
    /\ original' = m.original
    /\ draft' = m.draft
    /\ meta_arrays' = m.meta_arrays
    /\ meta' = m.meta
    /\ properties' = m.properties
    /\ fields' = m.fields
    /\ prev' = Snapshot
    /\ last' = [NoLast EXCEPT !.op = "Markup",
                  !.input = <<url, filepath, unshorten, trim, page, arrays>>,
                  !.out = m.log, !.err = m.err]
    /\ UNCHANGED <<nextId, held, ops>>

\* the calls on a constructed object: the draft loses its meta elements,
\* the metadata is gathered again
NextNew ==
    \/ \E u \in NewUrls, f \in NewFilepaths, us \in BOOLEAN, tr \in BOOLEAN,
          pg \in Pages, ar \in NewMetaArrays : New(u, f, us, tr, pg, ar)
    \/ "properties" \in fields /\ Drop(<<PlainStr("meta")>>)
    \/ \E c \in BOOLEAN : GatherMeta(c)

SpecNew == InitNew /\ [][NextNew]_vars

\* ---- structural comparison ----
RECURSIVE Shape(_, _)
\* the structure below and including n, without node identities
Shape(t, n) ==
    [tag |-> t.tag[n], attrs |-> t.attrs[n], text |-> t.text[n],
     kids |-> [i \in 1..Len(t.kids[n]) |-> Shape(t, t.kids[n][i])]]

\* the elements of the tree rooted at root, root included
TreeNodes(t, root) == {root} \cup Range(Descendants(t, root))

\* ---- claims ----

\* C1: in every reachable state the tree `original` is structurally what
\* it was right after construction; no operation on the draft adds,
\* removes or moves one of its nodes.
C1_OriginalNeverChanges == Shape(tree, original) = Shape(fetch_content, 1)

\* C2: outside the rejected combinations (namespaces with attrs or with
\* recursive=False), loc returns a TagLocator exactly when attrs is
\* non-empty or recursive is False, and otherwise a CSSLocator carrying the
\* selector, the namespaces and the limit.
C2_LocVariant ==
    last.op = "loc" =>
        LET n == last.input[1]
            a == last.input[2]
            r == last.input[3]
            ns == last.input[4]
            lim == last.input[5]
        IN ~(ns # {} /\ (a # {} \/ r = FALSE)) =>
             /\ last.err = ""
             /\ last.locs = <<IF a # {} \/ r = FALSE
                              THEN TagLocator(n, a, r, lim)
                              ELSE CSSLocator(n, ns, lim)>>

\* C3: loc raises ValueError and returns no locator whenever a non-empty
\* namespace mapping comes with non-empty attrs or with recursive=False.
C3_LocRejects ==
    last.op = "loc" =>
        LET a == last.input[2]
            r == last.input[3]
            ns == last.input[4]
        IN (ns # {} /\ (a # {} \/ r = FALSE)) =>
             /\ last.err = "ValueError"
             /\ last.locs = <<>>

\* C4: when nothing in the target tree matches the locator, select returns
\* None and raises nothing, whatever get_attr and get_text are.
C4_SelectMissIsNone ==
    (/\ last.op = "select"
     /\ Version(last.version) # None
     /\ SelectElem(tree, Version(last.version), last.locs[1]) = None)
    => /\ last.err = ""
       /\ last.res.kind = "None"

\* the locator of the last call and the draft it ran on
PrevMatches(l) == SelectAllElems(prev.tree, prev.draft, l)

Restrict(t, gone) ==
    [t EXCEPT !.kids = [m \in Node |-> SelectSeq(t.kids[m], LAMBDA k : k \notin gone)]]

RECURSIVE DropGone(_, _, _, _)
\* the elements drop(L1..Ln) has to remove: the matches of each Li on the
\* draft without what L1..Li-1 removed, and everything below them
DropGone(t, d, locs, gone) ==
    IF locs = <<>> THEN gone
    ELSE LET tr == Restrict(t, gone)
             m == Range(SelectAllElems(tr, d, Head(locs)))
             sub == m \cup UNION {Range(Descendants(tr, x)) : x \in m}
         IN DropGone(t, d, Tail(locs), gone \cup sub)

\* C6: after drop(L1..Ln) the draft holds none of the elements matched by
\* some Li when Li was evaluated (on the draft as L1..Li-1 left it) and
\* none of their descendants; every other element of the prior draft is
\* still there, unchanged, under the same parent and in the same order.
C6_DropRemovesMatches ==
    (last.op = "drop" /\ prev.draft # None) =>
        LET gone == DropGone(prev.tree, prev.draft, last.locs, {})
            before == Descendants(prev.tree, prev.draft)
        IN /\ last.err = ""
           /\ draft = prev.draft
           /\ Descendants(tree, draft) = SelectSeq(before, LAMBDA n : n \notin gone)
           /\ \A n \in Range(before) \ gone :
                /\ Parent(tree, n) = Parent(prev.tree, n)
                /\ tree.tag[n] = prev.tree.tag[n]
                /\ tree.attrs[n] = prev.tree.attrs[n]
                /\ tree.text[n] = prev.tree.text[n]

\* a drop of two locators where the second matched something else on the
\* mutated draft than it would have on the prior draft
C6_Witness ==
    /\ last.op = "drop"
    /\ prev.draft # None
    /\ Len(last.locs) = 2
    /\ PrevMatches(last.locs[1]) # <<>>
    /\ PrevMatches(last.locs[2]) #
         SelectAllElems(Restrict(prev.tree,
                                 DropGone(prev.tree, prev.draft, <<last.locs[1]>>, {})),
                        prev.draft, last.locs[2])
    /\ Descendants(tree, draft) # <<>>

\* the matches of a and b on the tree lie in disjoint subtrees
DisjointSubtrees(t, d, a, b) ==
    \A x \in Range(SelectAllElems(t, d, a)), y \in Range(SelectAllElems(t, d, b)) :
        TreeNodes(t, x) \cap TreeNodes(t, y) = {}

\* dropping the matches of a does not change what b matches
Unaffected(t, d, a, b) ==
    SelectAllElems(drop(t, d, <<a>>).t, d, b) = SelectAllElems(t, d, b)

\* the draft after drop(b, a), and after drop(a) followed by drop(b),
\* agree with the draft the last call drop(a, b) left
SameAsOtherOrders ==
    LET a == last.locs[1]
        b == last.locs[2]
        d == prev.draft
    IN /\ Shape(tree, draft) = Shape(drop(prev.tree, d, <<b, a>>).t, d)
       /\ Shape(tree, draft) = Shape(drop(drop(prev.tree, d, <<a>>).t, d, <<b>>).t, d)

\* C7 as stated: for locators a, b whose matches lie in disjoint subtrees,
\* drop(a, b), drop(b, a) and drop(a) then drop(b) leave the same draft.
C7_DropCommutesOnDisjoint ==
    (/\ last.op = "drop"
     /\ prev.draft # None
     /\ Len(last.locs) = 2
     /\ DisjointSubtrees(prev.tree, prev.draft, last.locs[1], last.locs[2]))
    => SameAsOtherOrders

\* C7 amended: the same, for locators whose matches lie in disjoint
\* subtrees and where dropping the matches of either one does not change
\* which elements the other one matches.
C7_DropCommutesOnIndependent ==
    (/\ last.op = "drop"
     /\ prev.draft # None
     /\ Len(last.locs) = 2
     /\ DisjointSubtrees(prev.tree, prev.draft, last.locs[1], last.locs[2])
     /\ Unaffected(prev.tree, prev.draft, last.locs[1], last.locs[2])
     /\ Unaffected(prev.tree, prev.draft, last.locs[2], last.locs[1]))
    => SameAsOtherOrders

\* a drop of two different locators that both matched, disjointly and
\* independently
C7_Witness ==
    /\ last.op = "drop"
    /\ prev.draft # None
    /\ Len(last.locs) = 2
    /\ PrevMatches(last.locs[1]) # <<>>
    /\ PrevMatches(last.locs[2]) # <<>>
    /\ PrevMatches(last.locs[1]) # PrevMatches(last.locs[2])
    /\ DisjointSubtrees(prev.tree, prev.draft, last.locs[1], last.locs[2])
    /\ Unaffected(prev.tree, prev.draft, last.locs[1], last.locs[2])
    /\ Unaffected(prev.tree, prev.draft, last.locs[2], last.locs[1])

RECURSIVE ExpectedMatches(_, _, _, _, _)
\* what apply(editor, L1..Ln) has to visit: for each Li in order, the
\* elements select_all(Li) returns on the draft as the passes of L1..Li-1
\* left it, in document order
ExpectedMatches(t, next, d, editor, locs) ==
    IF locs = <<>> THEN <<>>
    ELSE LET after == apply(t, next, d, editor, <<Head(locs)>>) IN
         <<SelectAllElems(t, d, Head(locs))>>
         \o ExpectedMatches(after.t, after.next, d, editor, Tail(locs))

RECURSIVE Flatten(_)
Flatten(ss) == IF ss = <<>> THEN <<>> ELSE Head(ss) \o Flatten(Tail(ss))

\* C8: apply(editor, L1..Ln) invokes editor once per element that
\* select_all(Li) returns on the draft when Li is evaluated, locator by
\* locator in argument order and in document order within a locator, with
\* the element as sole argument (so k times for an element matched by k
\* of the locators), and never on an element of original.
C8_ApplyVisitsEachMatch ==
    (last.op = "apply" /\ callable(last.editor) /\ prev.draft # None) =>
        LET matches == ExpectedMatches(prev.tree, prev.nextId, prev.draft,
                                       last.editor, last.locs)
            visits == Flatten(matches)
        IN /\ last.err = ""
           /\ last.calls = [i \in 1..Len(visits) |->
                              [fn |-> last.editor, on |-> "element", arg |-> visits[i]]]
           /\ \A i \in 1..Len(last.calls) :
                /\ last.calls[i].arg \notin TreeNodes(prev.tree, original)
                /\ last.calls[i].arg \notin TreeNodes(tree, original)
                /\ Cardinality({j \in 1..Len(last.calls) :
                                  last.calls[j].arg = last.calls[i].arg})
                   = Cardinality({k \in 1..Len(last.locs) :
                                    last.calls[i].arg \in Range(matches[k])})

\* an apply over two locators that share a match, which was visited twice
C8_Witness ==
    /\ last.op = "apply"
    /\ callable(last.editor)
    /\ Len(last.locs) = 2
    /\ last.locs[1] # last.locs[2]
    /\ \E i, j \in 1..Len(last.calls) : i < j /\ last.calls[i].arg = last.calls[j].arg
    /\ \E i, j \in 1..Len(last.calls) : last.calls[i].arg # last.calls[j].arg

\* C9: edit(x) and apply(x, ...) with a non-callable x fail at once, invoke
\* nothing and leave draft, original, metadata and properties as they
\* were; edit(f) with a callable f invokes f exactly once, on the Document.
C9_NonCallableRejected ==
    /\ (last.op \in {"edit", "apply"} /\ ~callable(last.editor)) =>
          /\ last.err = "AssertionError"
          /\ last.calls = <<>>
          /\ tree = prev.tree
          /\ draft = prev.draft
          /\ meta = prev.meta
          /\ properties = prev.properties
    /\ (last.op = "edit" /\ callable(last.editor)) =>
          last.calls = <<[fn |-> last.editor, on |-> "document", arg |-> None]>>

\* an apply with a non-callable editor and a locator that had matches
C9_Witness ==
    /\ last.op = "apply"
    /\ ~callable(last.editor)
    /\ last.locs # <<>>
    /\ draft # None
    /\ SelectAllElems(tree, draft, last.locs[1]) # <<>>

\* the children prepend leaves under the new container when bs4 nests the
\* prior root (a tag) or splices its children (the BeautifulSoup object)
PriorDraftAsChildren ==
    IF IsSoup(prev.tree, prev.draft) THEN prev.tree.kids[prev.draft]
    ELSE <<prev.draft>>

\* C10 as stated: after prepend(e1..en) on a present draft, for every list
\* of elements, the draft root is a new container whose children are
\* e1..en followed by the prior draft root (n+1 children), and the prior
\* draft's subtree is unchanged.
C10_PrependWrapsAnyElements ==
    (last.op = "prepend" /\ prev.draft # None) =>
        /\ last.err = ""
        /\ prev.tree.tag[draft] = Unused
        /\ tree.tag[draft] = "div"
        /\ tree.kids[draft] = last.elems \o <<prev.draft>>
        /\ Shape(tree, prev.draft) = Shape(prev.tree, prev.draft)

\* the elements handed to the last call are pairwise distinct tags and
\* none is the prior draft root, below it or above it
ElemsOutsideDraft ==
    /\ Cardinality(Range(last.elems)) = Len(last.elems)
    /\ \A e \in Range(last.elems) : ~IsSoup(tree, e)
    /\ Range(last.elems) \cap (TreeNodes(prev.tree, prev.draft)
                               \cup Ancestors(prev.tree, prev.draft)) = {}

\* C10 amended: for pairwise distinct tags outside the draft's tree,
\* the draft root is a new div whose children are e1..en in order,
\* followed by the prior draft root when that is a tag, or by the prior
\* root's children when it is the parsed document object; what was below
\* the prior root is unchanged.
C10_PrependWrapsNewElements ==
    (last.op = "prepend" /\ prev.draft # None /\ ElemsOutsideDraft) =>
        /\ last.err = ""
        /\ prev.tree.tag[draft] = Unused
        /\ tree.tag[draft] = "div"
        /\ tree.kids[draft] = last.elems \o PriorDraftAsChildren
        /\ \A k \in Range(prev.tree.kids[prev.draft]) :
             Shape(tree, k) = Shape(prev.tree, k)
        /\ ~IsSoup(prev.tree, prev.draft) =>
             Shape(tree, prev.draft) = Shape(prev.tree, prev.draft)

\* a prepend of a new element onto a draft that filter had reduced to a tag
C10_Witness ==
    /\ last.op = "prepend"
    /\ prev.draft # None
    /\ ~IsSoup(prev.tree, prev.draft)
    /\ last.elems # <<>>
    /\ ElemsOutsideDraft
    /\ Len(tree.kids[draft]) = Len(last.elems) + 1

\* the keys of a table
Keys(table) == {table[i][1] : i \in 1..Len(table)}

\* C11: counts(L1..Ln), n >= 1, on a present draft returns a table with
\* exactly one entry per locator, keyed by str(Li), whose value is the
\* number of elements select_all(Li) returns on the draft, 0 included; an
\* element matched by several locators counts for each of them; the tree
\* and the draft are left as they were.
C11_CountsPerLocator ==
    (last.op = "counts" /\ last.locs # <<>> /\ prev.draft # None) =>
        /\ last.err = ""
        /\ Keys(last.table) = {LocStr(l) : l \in Range(last.locs)}
        /\ Len(last.table) = Cardinality(Keys(last.table))
        /\ \A l \in Range(last.locs) :
             OGet(last.table, LocStr(l))
               = Len(select_all(prev.tree, prev.draft, l, "", FALSE).elems)
        /\ tree = prev.tree
        /\ draft = prev.draft

\* a counts() over two locators that share a match, one of them also
\* matching more
C11_Witness ==
    /\ last.op = "counts"
    /\ Len(last.locs) = 2
    /\ last.locs[1] # last.locs[2]
    /\ draft # None
    /\ Range(SelectAllElems(tree, draft, last.locs[1]))
         \cap Range(SelectAllElems(tree, draft, last.locs[2])) # {}
    /\ last.table[1][2] > last.table[2][2]
    /\ last.table[2][2] > 0

\* the locator without its limit
Unlimited(l) == [l EXCEPT !.limit = None]

\* C12: select_all with a locator of either variant whose limit is k
\* returns the first min(k, m) of the m elements the same locator without
\* a limit returns, in document order.
C12_LimitIsPrefix ==
    (/\ last.op = "select_all"
     /\ last.res.kind = "elems"
     /\ last.locs[1].limit # None)
    => last.res.elems
         = Take(SelectAllElems(tree, Version(last.version), Unlimited(last.locs[1])),
                last.locs[1].limit)

\* the meta elements of original, in document order
MetaTags == FindAll(tree, original, "meta", {}, TRUE, None, None)

\* what metadata has to hold for key k: the contents of the meta elements
\* with that key, as a list for an array key and the last one otherwise
ExpectedMetaValue(k) ==
    LET with == SelectSeq(MetaTags, LAMBDA n : KeyOf(MetaKey(tree.attrs[n])) = k)
        content(n) == AttrVal(tree.attrs[n], "content")
    IN IF k \in DEFAULT_META_ARRAYS \cup meta_arrays
       THEN ListVal([i \in 1..Len(with) |-> content(with[i])])
       ELSE content(with[Len(with)])

ExpectedMeta ==
    {<<k, ExpectedMetaValue(k)>> : k \in {KeyOf(MetaKey(tree.attrs[n])) : n \in Range(MetaTags)}}

\* C13: the metadata gathered at construction, and by every later
\* gather_meta(), is computed from the meta elements of original alone: an
\* array key (a default one or one of meta_arrays) holds the list of the
\* contents of all meta elements with that key in document order, any
\* other key the content of the last meta element with that key.
C13_MetaFromOriginal ==
    /\ (last.op = "Markup" /\ "meta" \in fields) => meta = ExpectedMeta
    /\ (last.op = "gather_meta" /\ last.input = <<FALSE>>) => last.dict = ExpectedMeta

\* gather_meta() on a page with a two-element array key and a recurring
\* scalar key, after the draft has lost its meta elements
C13_Witness ==
    /\ last.op = "gather_meta"
    /\ last.input = <<FALSE>>
    /\ FindAll(tree, draft, "meta", {}, TRUE, None, None) = <<>>
    /\ DictHas(last.dict, "article:tag")
    /\ Len(DictGet(last.dict, "article:tag").items) = 2
    /\ DictGet(last.dict, "article:tag").items[1] # DictGet(last.dict, "article:tag").items[2]
    /\ DictHas(last.dict, "keywords")
    /\ DictGet(last.dict, "keywords") = StrVal("k2")

RECURSIVE Sum(_)
Sum(counts_) == IF counts_ = <<>> THEN 0 ELSE Head(counts_)[2] + Sum(Tail(counts_))

GivenUrl == TruthyVal(last.input[1])

GivenFilepath == TruthyVal(last.input[2])

\* C16: Markup(...) with both url and filepath given, or with neither,
\* raises ValueError before any step of fetching is taken and before any
\* attribute of the object is set; with exactly one of them it goes on to
\* fetch and parse.
C16_OneSourceRequired ==
    last.op = "Markup" =>
        /\ (GivenUrl = GivenFilepath) =>
             /\ last.err = "ValueError"
             /\ last.out = <<>>
             /\ fields = {}
             /\ original = None
             /\ draft = None
        /\ (GivenUrl # GivenFilepath) =>
             /\ last.err # "ValueError"
             /\ "BeautifulSoup" \in Range(last.out)
             /\ original # None

\* a Markup(...) call with both a url and a filepath
C16_Witness ==
    /\ last.op = "Markup"
    /\ GivenUrl
    /\ GivenFilepath
    /\ last.err = "ValueError"

\* the text of the title element of original, None without one
TitleText ==
    LET title == Find(tree, original, "title", {}, TRUE, None) IN
    IF title = None THEN NoneVal ELSE TextVal(TextOf(tree, title))

\* C18: for every page, construction from one source succeeds and
\* properties holds exactly headline, description, publisher and url:
\* headline is og:title when that is present and non-empty and the title
\* element's text otherwise, description is og:description, publisher is
\* og:site_name, url is the resolved source.
C18_PropertiesSeeded ==
    (last.op = "Markup" /\ GivenUrl # GivenFilepath) =>
        /\ last.err = ""
        /\ OKeys(properties) = <<"headline", "description", "publisher", "url">>
        /\ OGet(properties, "headline")
             = IF TruthyVal(MetaGet(meta, "og:title")) THEN MetaGet(meta, "og:title")
               ELSE IF TruthyVal(TitleText) THEN TitleText ELSE NoneVal
        /\ OGet(properties, "description") = MetaGet(meta, "og:description")
        /\ OGet(properties, "publisher") = MetaGet(meta, "og:site_name")
        /\ OGet(properties, "url")
             = IF GivenFilepath THEN last.input[2]
               ELSE StrVal(prepare_url(last.input[1].s, last.input[3], last.input[4]))

\* the text the claim gives a value: quoted when a string with ", " in it,
\* the items joined by ", " and a closing comma when a list, str(value)
\* otherwise
Rendered(v) ==
    CASE IsStr(v) /\ Contains(CharsOf(v), <<",", " ">>) ->
           <<"\"">> \o CharsOf(v) \o <<"\"">>
      [] v.kind = "list" -> Join(<<",", " ">>, v.items) \o <<",">>
      [] OTHER -> Str(v)

RECURSIVE ExpectedBlock(_)
ExpectedBlock(props) ==
    IF props = <<>> THEN <<>>
    ELSE Chars(Head(props)[1]) \o <<":", ":", " ">> \o Rendered(Head(props)[2])
         \o <<"\n">> \o ExpectedBlock(Tail(props))

\* the keys of m that props does not have, in the order m first names them
NewKeys(props, m) ==
    LET isFirst(i) == /\ ~OHas(props, m[i][1])
                      /\ \A j \in 1..(i - 1) : m[j][1] # m[i][1]
        RECURSIVE from(_)
        from(i) == IF i > Len(m) THEN <<>>
                   ELSE (IF isFirst(i) THEN <<m[i][1]>> ELSE <<>>) \o from(i + 1)
    IN from(1)

Canon(l) == IF l.kind = "str" THEN loc(l.name, {}, TRUE, {}, None).locator ELSE l

CanonAll(ls) == [i \in 1..Len(ls) |-> Canon(ls[i])]

\* C17: a call of select, select_all, filter, drop, apply or counts that
\* is given plain strings returns what, and leaves the tree and draft as,
\* the same call given loc(s) for each string s would.
C17_PlainStringIsLoc ==
    (\E i \in 1..Len(last.locs) : last.locs[i].kind = "str") =>
        LET ls == CanonAll(last.locs)
            v == IF last.version = "draft" THEN prev.draft ELSE original
        IN /\ last.op = "select" =>
                last.res = select(prev.tree, v, ls[1], last.getAttr, last.getText)
           /\ last.op = "select_all" =>
                last.res = select_all(prev.tree, v, ls[1], last.getAttr, last.getText)
           /\ last.op = "filter" =>
                LET r == select(prev.tree, prev.draft, ls[1], "", FALSE) IN
                /\ last.err = r.err
                /\ draft = IF r.err # "" THEN prev.draft ELSE r.elem
                /\ tree = prev.tree
           /\ last.op = "drop" =>
                LET r == drop(prev.tree, prev.draft, ls) IN
                /\ last.err = r.err
                /\ tree = r.t
                /\ draft = prev.draft
           /\ last.op = "apply" =>
                LET r == apply(prev.tree, prev.nextId, prev.draft, last.editor, ls) IN
                /\ last.err = r.err
                /\ last.calls = r.calls
                /\ tree = r.t
                /\ draft = prev.draft
           /\ last.op = "counts" =>
                LET r == counts(prev.tree, prev.draft, ls) IN
                /\ last.err = r.err
                /\ last.err = "" =>
                     \A i \in 1..Len(ls) :
                        OGet(last.table, LocStr(last.locs[i])) = OGet(r.table, LocStr(ls[i]))
                /\ tree = prev.tree
                /\ draft = prev.draft

\* a drop given a plain string that matched several elements
C17_Witness ==
    /\ last.op = "drop"
    /\ Len(last.locs) = 1
    /\ last.locs[1].kind = "str"
    /\ prev.draft # None
    /\ Len(PrevMatches(last.locs[1])) >= 2
    /\ tree # prev.tree

\* the value add_properties(m) has to leave under key k
Overwritten(props, m, k) ==
    IF \E i \in 1..Len(m) : m[i][1] = k
    THEN m[CHOOSE i \in 1..Len(m) :
             m[i][1] = k /\ \A j \in (i + 1)..Len(m) : m[j][1] # k][2]
    ELSE OGet(props, k)

\* C19: metadata is what construction made it; select, select_all,
\* filter, drop, apply, prepend, append, counts, gather_meta and
\* properties_block leave metadata and properties as they were;
\* add_properties(m) leaves tree, draft, original and metadata as they
\* were and properties holds the prior keys and those of m, each key of m
\* with m's value and every other key with its prior value.
C19_MetadataPropertiesFrame ==
    /\ meta = Built.meta
    /\ last.op \in {"select", "select_all", "filter", "drop", "apply", "prepend",
                    "append", "counts", "gather_meta", "properties_block"} =>
          /\ meta = prev.meta
          /\ properties = prev.properties
    /\ last.op = "add_properties" =>
          /\ tree = prev.tree
          /\ draft = prev.draft
          /\ Shape(tree, original) = Shape(prev.tree, original)
          /\ meta = prev.meta
          /\ Keys(properties) = Keys(prev.properties) \cup Keys(last.input)
          /\ Len(properties) = Cardinality(Keys(properties))
          /\ \A k \in Keys(properties) :
               OGet(properties, k) = Overwritten(prev.properties, last.input, k)

\* an add_properties that overwrote a key and added one, on a draft that
\* an earlier call had changed
C19_Witness ==
    /\ last.op = "add_properties"
    /\ \E k \in Keys(prev.properties) :
         /\ k \in Keys(last.input)
         /\ OGet(properties, k) # OGet(prev.properties, k)
    /\ Keys(properties) # Keys(prev.properties)
    /\ draft # None
    /\ Shape(tree, draft) # Shape(Built.tree, Built.draft)
    /\ meta # {}

\* the last call is one of those the claim lists, select and select_all
\* reading the draft
OnDraft ==
    \/ last.op \in {"select", "select_all"} /\ last.version = "draft"
    \/ last.op \in {"filter", "prepend", "append", "counts", "to_html"}
    \/ last.op \in {"drop", "apply"} /\ last.locs # <<>>

\* C20 as stated: once the draft is absent, every later select,
\* select_all, filter, drop and apply with a locator, prepend, append,
\* counts and to_html fails and no call brings the draft back.
C20_AbsentDraftFailsEveryCall ==
    prev.draft = None =>
        /\ draft = None
        /\ OnDraft => last.err # ""

\* C20 amended: once the draft is absent it stays absent under every
\* call, and select and select_all of the draft, filter, drop and apply
\* with a locator, prepend, append with at least one element, counts and
\* to_html fail.
C20_AbsentDraftAbsorbing ==
    prev.draft = None =>
        /\ draft = None
        /\ (OnDraft /\ (last.op = "append" => last.elems # <<>>)) => last.err # ""

\* a prepend of an element onto an absent draft
C20_Witness ==
    /\ prev.draft = None
    /\ last.op = "prepend"
    /\ last.elems # <<>>
    /\ last.err # ""
    /\ draft = None

\* element n on its own satisfies the locator: the tag name, attribute
\* and string filters of a TagLocator, the selector otherwise
Satisfies(t, n, l) ==
    IF l.kind = "TagLocator" THEN StrainerMatch(t, n, l.name, l.attrs, l.limit)
    ELSE CssMatch(t, n, ParseSelector(l.name))

\* C21: select and select_all return only proper descendants of the root
\* they search, never the root itself; so a filter(L) on a draft none of
\* whose proper descendants satisfies L sets the draft to None even when
\* the draft root satisfies L (as it does right after a successful
\* filter(L)), and drop never removes the draft root.
C21_RootNeverMatched ==
    /\ (last.op \in {"select", "select_all"} /\ Version(last.version) # None) =>
          /\ last.res.kind = "elem" =>
               /\ last.res.elem # Version(last.version)
               /\ last.res.elem \in Range(Descendants(tree, Version(last.version)))
          /\ last.res.kind = "elems" =>
               /\ Version(last.version) \notin Range(last.res.elems)
               /\ Range(last.res.elems) \subseteq
                    Range(Descendants(tree, Version(last.version)))
    /\ (/\ last.op = "filter"
        /\ prev.draft # None
        /\ \A n \in Range(Descendants(prev.tree, prev.draft)) :
             ~Satisfies(prev.tree, n, last.locs[1]))
       => draft = None
    /\ (last.op = "drop" /\ prev.draft # None) =>
          /\ draft = prev.draft
          /\ Live(tree, draft)
          /\ tree.tag[draft] = prev.tree.tag[draft]

\* a second filter(L) on a draft that an earlier filter had reduced to an
\* element satisfying L, without descendants that do
C21_Witness ==
    /\ last.op = "filter"
    /\ prev.draft # None
    /\ prev.tree = Built.tree
    /\ ~IsSoup(prev.tree, prev.draft)
    /\ Satisfies(prev.tree, prev.draft, last.locs[1])
    /\ draft = None

\* the blockquote elements below d
Blockquotes(t, d) ==
    {n \in Range(Descendants(t, d)) : t.tag[n] = "blockquote"}

\* C22: apply(editor, L) evaluates the matches of L once, before the first
\* call of editor, and visits exactly those: an element the editor inserts
\* during the pass of L is not visited in that pass even if it matches L,
\* so there are as many calls as there were matches at the start of each
\* pass (quote_caption adds one blockquote per call); the pass of a later
\* locator is evaluated on the draft as the earlier pass left it.
C22_MatchSetEvaluatedOnce ==
    (/\ last.op = "apply"
     /\ callable(last.editor)
     /\ prev.draft # None
     /\ Len(last.locs) \in {1, 2}) =>
        LET first == PrevMatches(last.locs[1])
            mid == ApplyResults(Pass(prev.tree, prev.nextId), last.editor, first)
            second == IF Len(last.locs) = 2
                      THEN SelectAllElems(mid.t, prev.draft, last.locs[2])
                      ELSE <<>>
            visits == first \o second
        IN /\ last.err = ""
           /\ Len(last.calls) = Len(visits)
           /\ \A i \in 1..Len(visits) : last.calls[i].arg = visits[i]
           /\ \A i \in 1..Len(first) : last.calls[i].arg < prev.nextId
           /\ \A i \in (Len(first) + 1)..Len(visits) :
                last.calls[i].arg < prev.nextId + Len(first)
           /\ nextId = prev.nextId + Len(visits)
           /\ Cardinality(Blockquotes(tree, draft))
              = Cardinality(Blockquotes(prev.tree, prev.draft)) + Len(visits)

\* an apply whose second pass visited an element the first pass had
\* inserted, and left behind an inserted element that matches the second
\* locator and was not visited
C22_Witness ==
    /\ last.op = "apply"
    /\ callable(last.editor)
    /\ last.err = ""
    /\ Len(last.locs) = 2
    /\ \E i \in 1..Len(last.calls) : last.calls[i].arg >= prev.nextId
    /\ \E n \in Range(SelectAllElems(tree, draft, last.locs[2])) :
         /\ n >= prev.nextId
         /\ \A i \in 1..Len(last.calls) : last.calls[i].arg # n

====
